---- MODULE Spec2Model ----
(***************************************************************************)
(* Model of src/pl.py, the Streamlit "PRD & Implementation Plan Generator". *)
(*                                                                         *)
(* A Streamlit session executes the script top to bottom once per user     *)
(* event (a widget edit or a button click).  A script run is modelled by   *)
(* the program counter pc:                                                 *)
(*    idle -> tab1 -> [prd_wait] -> tab2 -> [plan_wait] -> idle            *)
(* where the two wait positions are the blocking generate_content calls.   *)
(*                                                                         *)
(* A text is a sequence of one-character strings.  The fixed wording of a  *)
(* prompt template is carried as one string per run of literal text.       *)
(***************************************************************************)
EXTENDS Integers, Sequences, FiniteSets, TLC

VARIABLES
    apiKey,         \* API_KEY is set (line 12)
    configured,     \* genai.configure was called (line 17)
    configError,    \* st.error of line 15 is on the page
    app_name,       \* value of the "App Name" text_input (line 93)
    app_idea,       \* value of the description text_area (line 94)
    export_format,  \* value of the "Export Format" radio (line 97)
    prd_input,      \* value of the "PRD Input" text_area (line 128)
    prdDefault,     \* the default `value` the PRD Input widget was built with
    last_prd,       \* st.session_state["last_prd"]: [present, value]
    clicked,        \* the button that is True in the current run
    pc,             \* position of the current script run
    request,        \* the generate_content call in flight: [op, prompt, doc]
    inFlight,       \* number of generate_content calls in flight
    prdCalls,       \* generate_prd invocations in the current run
    planCalls,      \* generate_plan invocations in the current run
    response,       \* what generate_content answered in the current run
    prd_output,     \* the PRD on the page: [shown, text]
    plan_output,    \* the plan on the page: [shown, text]
    warning,        \* the st.warning on the page: "none", "prd", "plan"
    prdDownload,    \* the PRD download button on the page
    planDownload,   \* the plan download button on the page
    uncaught,       \* the run ended with an uncaught exception
    lastPrdResult   \* history: result of the latest completed generate_prd

vars == <<apiKey, configured, configError, app_name, app_idea, export_format,
          prd_input, prdDefault, last_prd, clicked, pc, request, inFlight,
          prdCalls, planCalls, response, prd_output, plan_output, warning,
          prdDownload, planDownload, uncaught, lastPrdResult>>

(***************************************************************************)
(* Bounds and input sets                                                   *)
(***************************************************************************)
MaxNameLen == 2

RECURSIVE StringsUpTo(_, _)
StringsUpTo(chars, n) ==
    IF n = 0 THEN {<<>>}
    ELSE LET shorter == StringsUpTo(chars, n - 1)
         IN  shorter \cup {Append(s, c) : s \in shorter, c \in chars}

NameInputs == StringsUpTo({"a", " "}, MaxNameLen)
IdeaInputs == {<<>>, <<"d">>, <<" ">>}
PrdEdits   == {<<>>, <<" ">>, <<"p">>, <<" ", "p">>}
RespTexts  == {<<>>, <<"r">>, <<"é">>}

AppTypes      == {"Web App", "Mobile App", "Hybrid", "AI Tool", "IoT App"}
Languages     == {"English", "Hindi", "Telugu"}
ExportFormats == {"Markdown", "Text"}

\* Values datetime.now() may take: <<year, month, day, hour, minute, second>>.
Times == {<<2024, 1, 5, 9, 3, 7>>, <<1999, 12, 31, 23, 59, 59>>}

(***************************************************************************)
(* Python string operations                                                *)
(***************************************************************************)
Whitespace == {" ", "\t", "\n"}

RECURSIVE LStrip(_)
LStrip(s) == IF s # <<>> /\ Head(s) \in Whitespace THEN LStrip(Tail(s)) ELSE s

RECURSIVE RStrip(_)
RStrip(s) ==
    IF s # <<>> /\ s[Len(s)] \in Whitespace
    THEN RStrip(SubSeq(s, 1, Len(s) - 1))
    ELSE s

\* str.strip()
Strip(s) == RStrip(LStrip(s))

\* str.replace(old, new) for one-character old and new
RECURSIVE Replace(_, _, _)
Replace(s, old, new) ==
    IF s = <<>> THEN <<>>
    ELSE <<IF Head(s) = old THEN new ELSE Head(s)>> \o Replace(Tail(s), old, new)

Digit(d) == <<"0", "1", "2", "3", "4", "5", "6", "7", "8", "9">>[d + 1]

\* zero-padded decimal of n in w digits
RECURSIVE Pad(_, _)
Pad(n, w) == IF w = 0 THEN <<>> ELSE Pad(n \div 10, w - 1) \o <<Digit(n % 10)>>

\* t.strftime('%Y%m%d_%H%M%S')
Strftime(t) ==
    Pad(t[1], 4) \o Pad(t[2], 2) \o Pad(t[3], 2) \o <<"_">>
        \o Pad(t[4], 2) \o Pad(t[5], 2) \o Pad(t[6], 2)

\* Unicode code point of the characters the model uses
CodePoint(c) ==
    CASE c = " " -> 32
      [] c = "." -> 46
      [] c = "G" -> 71
      [] c = "N" -> 78
      [] c = "d" -> 100
      [] c = "e" -> 101
      [] c = "f" -> 102
      [] c = "i" -> 105
      [] c = "m" -> 109
      [] c = "n" -> 110
      [] c = "o" -> 111
      [] c = "p" -> 112
      [] c = "r" -> 114
      [] c = "s" -> 115
      [] c = "é" -> 233
      [] c = "⚠" -> 9888
      [] c = "U+FE0F" -> 65039

\* UTF-8 bytes of one code point below 2^16
Utf8Char(cp) ==
    IF cp < 128 THEN <<cp>>
    ELSE IF cp < 2048 THEN <<192 + (cp \div 64), 128 + (cp % 64)>>
    ELSE <<224 + (cp \div 4096), 128 + ((cp \div 64) % 64), 128 + (cp % 64)>>

\* str.encode("utf-8")
RECURSIVE Utf8Encode(_)
Utf8Encode(s) ==
    IF s = <<>> THEN <<>> ELSE Utf8Char(CodePoint(Head(s))) \o Utf8Encode(Tail(s))

(***************************************************************************)
(* The generation service: google.generativeai                             *)
(***************************************************************************)
\* What model.generate_content(prompt) can do: raise (network error,
\* malformed response, quota, missing credential), return None, return a
\* response whose .text is a string, or return a response without any text
\* part, whose .text accessor raises ValueError.
Outcomes ==
    {[kind |-> k, text |-> <<>>] : k \in {"raise", "none", "notext"}}
        \cup {[kind |-> "text", text |-> t] : t \in RespTexts}

NoResponse == [kind |-> "pending", text |-> <<>>]

\* "⚠️ No response from Gemini." (lines 48 and 76)
Placeholder ==
    <<"⚠", "U+FE0F", " ", "N", "o", " ", "r", "e", "s", "p", "o", "n", "s", "e",
      " ", "f", "r", "o", "m", " ", "G", "e", "m", "i", "n", "i", ".">>

\* generate_prd's f-string fed a name stripped of surrounding whitespace
generate_prd_prompt_Stripped(name, idea, type, lang) ==
    <<"You are an expert product manager. Create a PRD ... App Name: ">>
        \o Strip(name)
        \o <<" App Type: ", type, " Description: ">>
        \o idea
        \o <<" Structure the PRD with these sections: 1. ... 10. Language: ", lang>>

\* the f-string of generate_prd
generate_prd_prompt(name, idea, type, lang) ==
    <<"You are an expert product manager. Create a PRD ... App Name: ">>
        \o name
        \o <<" App Type: ", type, " Description: ">>
        \o idea
        \o <<" Structure the PRD with these sections: 1. ... 10. Language: ", lang>>

\* generate_prd with the call wrapped in try/except that falls back to the
\* placeholder
generate_prd_return_Guarded(resp) ==
    CASE resp.kind = "raise"  -> [raised |-> FALSE, value |-> Placeholder]
      [] resp.kind = "none"   -> [raised |-> FALSE, value |-> Placeholder]
      [] resp.kind = "text"   -> [raised |-> FALSE, value |-> resp.text]
      [] resp.kind = "notext" -> [raised |-> FALSE, value |-> Placeholder]

\* `return response.text if response else "..."` of generate_prd, together
\* with an exception raised by generate_content: [raised, value]
generate_prd_return(resp) ==
    CASE resp.kind = "raise"  -> [raised |-> TRUE,  value |-> <<>>]
      [] resp.kind = "none"   -> [raised |-> FALSE, value |-> Placeholder]
      [] resp.kind = "text"   -> [raised |-> FALSE, value |-> resp.text]
      [] resp.kind = "notext" -> [raised |-> TRUE,  value |-> <<>>]

\* the f-string of generate_plan
generate_plan_prompt(prd_text, lang) ==
    <<"You are a senior software architect. ... --- PRD START --- ">>
        \o prd_text
        \o <<" --- PRD END --- Rules for the implementation plan: ... Language: ", lang>>

\* `return response.text if response else "..."` of generate_plan
generate_plan_return(resp) ==
    CASE resp.kind = "raise"  -> [raised |-> TRUE,  value |-> <<>>]
      [] resp.kind = "none"   -> [raised |-> FALSE, value |-> Placeholder]
      [] resp.kind = "text"   -> [raised |-> FALSE, value |-> resp.text]
      [] resp.kind = "notext" -> [raised |-> TRUE,  value |-> <<>>]

(***************************************************************************)
(* Pieces of the two tabs                                                  *)
(***************************************************************************)
\* a check of the app name alone
PrdValid_NameOnly(name, idea) == ~(name = <<>>)

\* negation of `not app_idea or not app_name` (line 100)
PrdValid(name, idea) == ~(idea = <<>> \/ name = <<>>)

\* a check without strip()
PlanValid_NoStrip(text) == ~(text = <<>>)

\* negation of `not prd_input.strip()` (line 132)
PlanValid(text) == ~(Strip(text) = <<>>)

\* a store guarded by `if prd_output:`
SaveForTab2_NonEmptyOnly(output) == [present |-> output # <<>>, value |-> output]

\* the value line 110 stores in st.session_state["last_prd"]
SaveForTab2(output) == [present |-> TRUE, value |-> output]

\* st.session_state.get("last_prd", "") (line 128)
HandoffDefault(slot) == IF slot.present THEN slot.value ELSE <<>>

\* a text_area with a key, which keeps its value whatever the default
TextAreaValue_Keyed(current, built, default) == current

\* What st.text_area("PRD Input", default, height=400) returns.  The widget
\* has no key, so its identity is made of its arguments: while the default
\* is the one the widget was built with it returns the widget's current
\* value, and with another default it is a new widget that returns the
\* default.
TextAreaValue(current, built, default) ==
    IF default = built THEN current ELSE default

\* a Plan button that is also True in the run of a PRD click
ButtonPlan_AnyClick(c) == c \in {"prd", "plan"}

\* st.button: True only in the run its click started
ButtonPrd(c)  == c = "prd"
ButtonPlan(c) == c = "plan"

NoDownload == [offered |-> FALSE, file_name |-> <<>>, data |-> <<>>, mime |-> ""]

\* str.replace(old, new, 1)
RECURSIVE ReplaceFirst(_, _, _)
ReplaceFirst(s, old, new) ==
    IF s = <<>> THEN <<>>
    ELSE IF Head(s) = old THEN <<new>> \o Tail(s)
    ELSE <<Head(s)>> \o ReplaceFirst(Tail(s), old, new)

\* a replacement of the first space only
SanitizeName_FirstOnly(name) == ReplaceFirst(name, " ", "_")

\* app_name.replace(' ', '_') (line 113)
SanitizeName(name) == Replace(name, " ", "_")

\* lines 113-118
PrdDownload(name, output, format, now) ==
    LET file_name == SanitizeName(name) \o <<"_", "P", "R", "D", "_">> \o Strftime(now)
        file_content == Utf8Encode(output)
    IN  IF format = "Markdown"
        THEN [offered |-> TRUE, file_name |-> file_name \o <<".", "m", "d">>,
              data |-> file_content, mime |-> "text/markdown"]
        ELSE [offered |-> TRUE, file_name |-> file_name \o <<".", "t", "x", "t">>,
              data |-> file_content, mime |-> "text/plain"]

\* lines 142-144
PlanDownload(output, now) ==
    LET file_name ==
            <<"I", "m", "p", "l", "e", "m", "e", "n", "t", "a", "t", "i", "o", "n",
              "P", "l", "a", "n", "_">> \o Strftime(now)
        file_content == Utf8Encode(output)
    IN  [offered |-> TRUE, file_name |-> file_name \o <<".", "m", "d">>,
         data |-> file_content, mime |-> "text/markdown"]

NoRequest == [op |-> "none", args |-> <<>>, prompt |-> <<>>]
NoOutput  == [shown |-> FALSE, text |-> <<>>]
NoSlot    == [present |-> FALSE, value |-> <<>>]

(***************************************************************************)
(* Initial state: the page after the first script run of the session       *)
(***************************************************************************)
Init ==
    /\ apiKey \in BOOLEAN
    /\ configured = apiKey
    /\ configError = ~apiKey
    /\ app_name = <<>>
    /\ app_idea = <<>>
    /\ export_format = "Markdown"
    /\ prd_input = <<>>
    /\ prdDefault = <<>>
    /\ last_prd = NoSlot
    /\ clicked = "none"
    /\ pc = "idle"
    /\ request = NoRequest
    /\ inFlight = 0
    /\ prdCalls = 0
    /\ planCalls = 0
    /\ response = NoResponse
    /\ prd_output = NoOutput
    /\ plan_output = NoOutput
    /\ prdDownload = NoDownload
    /\ planDownload = NoDownload
    /\ warning = "none"
    /\ uncaught = FALSE
    /\ lastPrdResult = NoSlot

(***************************************************************************)
(* User events.  Each one starts a script run: the page is rebuilt from    *)
(* the top, lines 11-17 run again, and only the clicked button is True.    *)
(***************************************************************************)
StartRun(button) ==
    /\ pc = "idle"
    /\ pc' = "tab1"
    /\ clicked' = button
    /\ configured' = (configured \/ apiKey)
    /\ configError' = ~apiKey
    /\ prdCalls' = 0
    /\ planCalls' = 0
    /\ response' = NoResponse
    /\ prd_output' = NoOutput
    /\ plan_output' = NoOutput
    /\ prdDownload' = NoDownload
    /\ planDownload' = NoDownload
    /\ warning' = "none"
    /\ uncaught' = FALSE
    /\ UNCHANGED <<apiKey, last_prd, request, inFlight, prdDefault, lastPrdResult>>

EditAppName ==
    \E s \in NameInputs \ {app_name} :
        /\ StartRun("none")
        /\ app_name' = s
        /\ UNCHANGED <<app_idea, export_format, prd_input>>

EditAppIdea ==
    \E s \in IdeaInputs \ {app_idea} :
        /\ StartRun("none")
        /\ app_idea' = s
        /\ UNCHANGED <<app_name, export_format, prd_input>>

SelectExportFormat ==
    \E f \in ExportFormats \ {export_format} :
        /\ StartRun("none")
        /\ export_format' = f
        /\ UNCHANGED <<app_name, app_idea, prd_input>>

EditPrdInput ==
    \E s \in PrdEdits \ {prd_input} :
        /\ StartRun("none")
        /\ prd_input' = s
        /\ UNCHANGED <<app_name, app_idea, export_format>>

ClickGeneratePrd ==
    /\ StartRun("prd")
    /\ UNCHANGED <<app_name, app_idea, export_format, prd_input>>

ClickGeneratePlan ==
    /\ StartRun("plan")
    /\ UNCHANGED <<app_name, app_idea, export_format, prd_input>>

\* a click on a download button saves the file and reruns the script
ClickDownload ==
    /\ prdDownload.offered \/ planDownload.offered
    /\ StartRun("none")
    /\ UNCHANGED <<app_name, app_idea, export_format, prd_input>>

(***************************************************************************)
(* Tab 1 of the running script (lines 90-118)                              *)
(***************************************************************************)
\* the button of line 99 is False
Tab1Idle ==
    /\ pc = "tab1"
    /\ ~ButtonPrd(clicked)
    /\ pc' = "tab2"
    /\ UNCHANGED <<apiKey, configured, configError, app_name, app_idea,
                   export_format, prd_input, prdDefault, last_prd, clicked,
                   request, inFlight, prdCalls, planCalls, response, prd_output,
                   plan_output, warning, prdDownload, planDownload, uncaught,
                   lastPrdResult>>

\* lines 100-101
Tab1Warn ==
    /\ pc = "tab1"
    /\ ButtonPrd(clicked)
    /\ ~PrdValid(app_name, app_idea)
    /\ warning' = "prd"
    /\ pc' = "tab2"
    /\ UNCHANGED <<apiKey, configured, configError, app_name, app_idea,
                   export_format, prd_input, prdDefault, last_prd, clicked,
                   request, inFlight, prdCalls, planCalls, response, prd_output,
                   plan_output, prdDownload, planDownload, uncaught,
                   lastPrdResult>>

\* lines 102-104 and 22-47: generate_prd is entered and the request is sent
PrdCall ==
    /\ pc = "tab1"
    /\ ButtonPrd(clicked)
    /\ PrdValid(app_name, app_idea)
    /\ \E app_type \in AppTypes, language \in Languages :
          request' = [op |-> "prd",
                      args |-> <<app_name, app_idea, app_type, language>>,
                      prompt |-> generate_prd_prompt(app_name, app_idea,
                                                     app_type, language)]
    /\ inFlight' = inFlight + 1
    /\ prdCalls' = prdCalls + 1
    /\ pc' = "prd_wait"
    /\ UNCHANGED <<apiKey, configured, configError, app_name, app_idea,
                   export_format, prd_input, prdDefault, last_prd, clicked,
                   planCalls, response, prd_output, plan_output, warning,
                   prdDownload, planDownload, uncaught, lastPrdResult>>

\* lines 47-48 and 106-118: the answer arrives and the PRD is shown
PrdReturn ==
    /\ pc = "prd_wait"
    /\ \E outcome \in Outcomes, now \in Times :
          LET r == generate_prd_return(outcome)
          IN  /\ ~r.raised
              /\ response' = outcome
              /\ prd_output' = [shown |-> TRUE, text |-> r.value]
              /\ last_prd' = SaveForTab2(r.value)
              /\ lastPrdResult' = [present |-> TRUE, value |-> r.value]
              /\ prdDownload' = PrdDownload(app_name, r.value, export_format, now)
    /\ request' = NoRequest
    /\ inFlight' = inFlight - 1
    /\ pc' = "tab2"
    /\ UNCHANGED <<apiKey, configured, configError, app_name, app_idea,
                   export_format, prd_input, prdDefault, clicked, prdCalls,
                   planCalls, plan_output, warning, planDownload, uncaught>>

\* lines 47-48: an exception leaves generate_prd and ends the script run
PrdFail ==
    /\ pc = "prd_wait"
    /\ \E outcome \in Outcomes :
          /\ generate_prd_return(outcome).raised
          /\ response' = outcome
    /\ request' = NoRequest
    /\ inFlight' = inFlight - 1
    /\ uncaught' = TRUE
    /\ pc' = "idle"
    /\ UNCHANGED <<apiKey, configured, configError, app_name, app_idea,
                   export_format, prd_input, prdDefault, last_prd, clicked,
                   prdCalls, planCalls, prd_output, plan_output, warning,
                   prdDownload, planDownload, lastPrdResult>>

(***************************************************************************)
(* Tab 2 of the running script (lines 123-144)                             *)
(***************************************************************************)
\* line 128, then the button of line 131 is False
Tab2Idle ==
    /\ pc = "tab2"
    /\ ~ButtonPlan(clicked)
    /\ prd_input' = TextAreaValue(prd_input, prdDefault, HandoffDefault(last_prd))
    /\ prdDefault' = HandoffDefault(last_prd)
    /\ pc' = "idle"
    /\ UNCHANGED <<apiKey, configured, configError, app_name, app_idea,
                   export_format, last_prd, clicked, request, inFlight,
                   prdCalls, planCalls, response, prd_output, plan_output,
                   warning, prdDownload, planDownload, uncaught, lastPrdResult>>

\* lines 128, 132-133
Tab2Warn ==
    /\ pc = "tab2"
    /\ ButtonPlan(clicked)
    /\ prd_input' = TextAreaValue(prd_input, prdDefault, HandoffDefault(last_prd))
    /\ prdDefault' = HandoffDefault(last_prd)
    /\ ~PlanValid(prd_input')
    /\ warning' = "plan"
    /\ pc' = "idle"
    /\ UNCHANGED <<apiKey, configured, configError, app_name, app_idea,
                   export_format, last_prd, clicked, request, inFlight,
                   prdCalls, planCalls, response, prd_output, plan_output,
                   prdDownload, planDownload, uncaught, lastPrdResult>>

\* lines 128, 134-136 and 51-75: generate_plan is entered, the request sent
PlanCall ==
    /\ pc = "tab2"
    /\ ButtonPlan(clicked)
    /\ prd_input' = TextAreaValue(prd_input, prdDefault, HandoffDefault(last_prd))
    /\ prdDefault' = HandoffDefault(last_prd)
    /\ PlanValid(prd_input')
    /\ \E plan_language \in Languages :
          request' = [op |-> "plan",
                      args |-> <<prd_input', plan_language>>,
                      prompt |-> generate_plan_prompt(prd_input', plan_language)]
    /\ inFlight' = inFlight + 1
    /\ planCalls' = planCalls + 1
    /\ pc' = "plan_wait"
    /\ UNCHANGED <<apiKey, configured, configError, app_name, app_idea,
                   export_format, last_prd, clicked, prdCalls, response,
                   prd_output, plan_output, warning, prdDownload, planDownload,
                   uncaught, lastPrdResult>>

\* lines 75-76 and 138-144: the answer arrives and the plan is shown
PlanReturn ==
    /\ pc = "plan_wait"
    /\ \E outcome \in Outcomes, now \in Times :
          LET r == generate_plan_return(outcome)
          IN  /\ ~r.raised
              /\ response' = outcome
              /\ plan_output' = [shown |-> TRUE, text |-> r.value]
              /\ planDownload' = PlanDownload(r.value, now)
    /\ request' = NoRequest
    /\ inFlight' = inFlight - 1
    /\ pc' = "idle"
    /\ UNCHANGED <<apiKey, configured, configError, app_name, app_idea,
                   export_format, prd_input, prdDefault, last_prd, clicked,
                   prdCalls, planCalls, prd_output, warning, prdDownload,
                   uncaught, lastPrdResult>>

\* lines 75-76: an exception leaves generate_plan and ends the script run
PlanFail ==
    /\ pc = "plan_wait"
    /\ \E outcome \in Outcomes :
          /\ generate_plan_return(outcome).raised
          /\ response' = outcome
    /\ request' = NoRequest
    /\ inFlight' = inFlight - 1
    /\ uncaught' = TRUE
    /\ pc' = "idle"
    /\ UNCHANGED <<apiKey, configured, configError, app_name, app_idea,
                   export_format, prd_input, prdDefault, last_prd, clicked,
                   prdCalls, planCalls, prd_output, plan_output, warning,
                   prdDownload, planDownload, lastPrdResult>>

Next ==
    \/ EditAppName
    \/ EditAppIdea
    \/ SelectExportFormat
    \/ EditPrdInput
    \/ ClickGeneratePrd
    \/ ClickGeneratePlan
    \/ ClickDownload
    \/ Tab1Idle
    \/ Tab1Warn
    \/ PrdCall
    \/ PrdReturn
    \/ PrdFail
    \/ Tab2Idle
    \/ Tab2Warn
    \/ PlanCall
    \/ PlanReturn
    \/ PlanFail

Spec == Init /\ [][Next]_vars

(***************************************************************************)
(* Vocabulary of the properties                                            *)
(***************************************************************************)
\* sub occurs in s as a contiguous run
Contains(s, sub) ==
    \E i \in 1..(Len(s) - Len(sub) + 1) : SubSeq(s, i, i + Len(sub) - 1) = sub

Blank(s) == \A i \in 1..Len(s) : s[i] \in Whitespace

\* the code points a sequence of UTF-8 bytes stands for
RECURSIVE Utf8Decode(_)
Utf8Decode(b) ==
    IF b = <<>> THEN <<>>
    ELSE IF b[1] < 128 THEN <<b[1]>> \o Utf8Decode(SubSeq(b, 2, Len(b)))
    ELSE IF b[1] < 224
         THEN <<(b[1] - 192) * 64 + (b[2] - 128)>> \o Utf8Decode(SubSeq(b, 3, Len(b)))
         ELSE <<(b[1] - 224) * 4096 + (b[2] - 128) * 64 + (b[3] - 128)>>
                  \o Utf8Decode(SubSeq(b, 4, Len(b)))

CodePoints(s) == [i \in 1..Len(s) |-> CodePoint(s[i])]

DigitChars == {"0", "1", "2", "3", "4", "5", "6", "7", "8", "9"}

DigitValue(c) == CHOOSE d \in 0..9 : Digit(d) = c

RECURSIVE Number(_)
Number(ds) ==
    IF ds = <<>> THEN 0
    ELSE Number(SubSeq(ds, 1, Len(ds) - 1)) * 10 + DigitValue(ds[Len(ds)])

\* ts reads YYYYMMDD_HHMMSS and names one of the clock's values
IsTimestamp(ts) ==
    /\ Len(ts) = 15
    /\ ts[9] = "_"
    /\ \A i \in (1..15) \ {9} : ts[i] \in DigitChars
    /\ \E t \in Times :
          /\ Number(SubSeq(ts, 1, 4)) = t[1]
          /\ Number(SubSeq(ts, 5, 6)) = t[2]
          /\ Number(SubSeq(ts, 7, 8)) = t[3]
          /\ Number(SubSeq(ts, 10, 11)) = t[4]
          /\ Number(SubSeq(ts, 12, 13)) = t[5]
          /\ Number(SubSeq(ts, 14, 15)) = t[6]

\* fn is prefix, then a timestamp, then ext
IsStampedName(fn, prefix, ext) ==
    /\ Len(fn) = Len(prefix) + 15 + Len(ext)
    /\ SubSeq(fn, 1, Len(prefix)) = prefix
    /\ IsTimestamp(SubSeq(fn, Len(prefix) + 1, Len(prefix) + 15))
    /\ SubSeq(fn, Len(prefix) + 16, Len(fn)) = ext

Underscored(name) == [i \in 1..Len(name) |-> IF name[i] = " " THEN "_" ELSE name[i]]

(***************************************************************************)
(* Properties                                                              *)
(***************************************************************************)

\* C1: in a run started by the PRD submit, an empty app name or an empty
\* description means generate_prd is never invoked and the warning is shown;
\* with both non-empty generate_prd is invoked exactly once.
C1_PrdValidation ==
    clicked = "prd" =>
        IF app_name = <<>> \/ app_idea = <<>>
        THEN /\ prdCalls = 0
             /\ planCalls = 0
             /\ inFlight = 0
             /\ pc # "tab1" => warning = "prd"
        ELSE /\ prdCalls <= 1
             /\ pc # "tab1" => prdCalls = 1
             /\ warning = "none"

C1_Witness ==
    /\ clicked = "prd"
    /\ pc = "idle"
    /\ app_name # <<>>
    /\ app_idea = <<>>
    /\ warning = "prd"
    /\ prdCalls = 0

\* C2: without the credential the configuration error is shown and no
\* generation call is ever made.
C2_NoCallWithoutCredential ==
    ~apiKey => /\ configError
               /\ prdCalls = 0
               /\ planCalls = 0
               /\ inFlight = 0

\* C3: in a session with the credential, when the service answers with no
\* usable response (None, or a response with empty or no text) the operation
\* returns the placeholder and raises nothing.
C3_PlaceholderOnNoUsableResponse ==
    (/\ apiKey
     /\ \/ response.kind \in {"none", "notext"}
        \/ response.kind = "text" /\ response.text = <<>>)
    => /\ ~uncaught
       /\ clicked = "prd" => prd_output = [shown |-> TRUE, text |-> Placeholder]
       /\ clicked = "plan" => plan_output = [shown |-> TRUE, text |-> Placeholder]

\* C4: the slot st.session_state["last_prd"] always holds exactly the result
\* of the latest completed PRD generation (and nothing before the first), the
\* default of the Plan input field built from it is exactly that result, and
\* the slot changes only in the step that completes a PRD generation.
C4_Handoff ==
    /\ [](/\ last_prd = lastPrdResult
          /\ pc = "idle" => prdDefault = HandoffDefault(lastPrdResult))
    /\ [][last_prd' # last_prd =>
            /\ pc = "prd_wait"
            /\ prd_output'.shown
            /\ last_prd' = [present |-> TRUE, value |-> prd_output'.text]]_vars

C4_Witness ==
    /\ pc = "idle"
    /\ clicked = "plan"
    /\ plan_output.shown
    /\ lastPrdResult = [present |-> TRUE, value |-> <<"r">>]
    /\ last_prd.value = <<"r">>
    /\ prdDefault = <<"r">>

\* C5 as claimed, in a session with the credential: the Plan submit is
\* rejected exactly when the field is empty, and any non-empty field is sent
\* to generate_plan once.
C5_OnlyNonEmptiness ==
    (apiKey /\ clicked = "plan" /\ pc \in {"plan_wait", "idle"}) =>
        IF prd_input = <<>>
        THEN warning = "plan" /\ planCalls = 0
        ELSE planCalls = 1

\* C5: the Plan submit is rejected (warning, no call, nothing generated) exactly
\* when the field is empty or all whitespace; any other field is passed to
\* generate_plan exactly once, unchanged, and appears verbatim in the prompt.
C5_PlanValidation ==
    (clicked = "plan" /\ pc \in {"plan_wait", "idle"}) =>
        IF Blank(prd_input)
        THEN /\ warning = "plan"
             /\ planCalls = 0
             /\ prdCalls = 0
             /\ inFlight = 0
             /\ pc = "idle"
             /\ ~plan_output.shown
             /\ ~planDownload.offered
        ELSE /\ planCalls = 1
             /\ prdCalls = 0
             /\ warning = "none"
             /\ pc = "plan_wait" =>
                    /\ request.op = "plan"
                    /\ request.args[1] = prd_input
                    /\ Contains(request.prompt, prd_input)

C5_Witness ==
    /\ clicked = "plan"
    /\ pc = "idle"
    /\ prd_input = <<" ">>
    /\ warning = "plan"
    /\ planCalls = 0

\* C6: a download is on the page only when a generation of the same run has
\* completed and its result is shown; its bytes are the UTF-8 of that result;
\* the PRD file is named <app name, spaces as '_'>_PRD_<YYYYMMDD_HHMMSS> with
\* .md for Markdown and .txt for Text, the plan file
\* ImplementationPlan_<YYYYMMDD_HHMMSS>.md.
C6_Export ==
    /\ prdDownload.offered =>
          /\ clicked = "prd"
          /\ prdCalls = 1
          /\ response.kind \in {"none", "text"}
          /\ prd_output.shown
          /\ Utf8Decode(prdDownload.data) = CodePoints(prd_output.text)
          /\ IsStampedName(prdDownload.file_name,
                           Underscored(app_name) \o <<"_", "P", "R", "D", "_">>,
                           IF export_format = "Markdown"
                           THEN <<".", "m", "d">>
                           ELSE <<".", "t", "x", "t">>)
    /\ planDownload.offered =>
          /\ clicked = "plan"
          /\ planCalls = 1
          /\ response.kind \in {"none", "text"}
          /\ plan_output.shown
          /\ Utf8Decode(planDownload.data) = CodePoints(plan_output.text)
          /\ IsStampedName(planDownload.file_name,
                           <<"I", "m", "p", "l", "e", "m", "e", "n", "t", "a", "t",
                             "i", "o", "n", "P", "l", "a", "n", "_">>,
                           <<".", "m", "d">>)

C6_Witness ==
    /\ prdDownload.offered
    /\ app_name = <<"a", " ">>
    /\ export_format = "Text"
    /\ prd_output.text = <<"é">>
    /\ prdDownload.file_name[2] = "_"

\* C7: the prompt generate_prd sends holds the app name and the description
\* of the submit as contiguous, unmodified runs, together with the selected
\* app type and language.
C7_PromptHoldsInputs ==
    request.op = "prd" =>
        /\ request.args[1] = app_name
        /\ request.args[2] = app_idea
        /\ app_name # <<>>
        /\ app_idea # <<>>
        /\ Contains(request.prompt, app_name)
        /\ Contains(request.prompt, app_idea)
        /\ Contains(request.prompt, <<request.args[3]>>)
        /\ Contains(request.prompt, <<request.args[4]>>)

C7_Witness ==
    /\ request.op = "prd"
    /\ app_name = <<" ", "a">>
    /\ app_idea = <<" ">>

\* C8 as claimed, in a session with the credential and for a field that was
\* built from an earlier PRD and then edited by the user: a script run
\* started by a later PRD submit leaves the content of the Plan input field
\* as it was.
C8_FieldUntouchedByPrdRun ==
    [][(/\ apiKey
        /\ clicked = "prd"
        /\ pc # "idle"
        /\ prdDefault # <<>>
        /\ prd_input # prdDefault) => prd_input' = prd_input]_vars

\* C8: the handoff is read as the field's default in every script run.  A run
\* changes the field only at that read, and only when the default read
\* differs from the one the field was built with; the field then becomes the
\* default read.  generate_plan is passed the field's content after the read.
C8_FieldFollowsHandoff ==
    [][/\ pc # "idle" =>
            prd_input' = IF pc = "tab2" /\ HandoffDefault(last_prd) # prdDefault
                         THEN HandoffDefault(last_prd)
                         ELSE prd_input
       /\ pc' = "plan_wait" => request'.args[1] = prd_input']_vars

C8_Witness ==
    /\ clicked = "prd"
    /\ pc = "tab2"
    /\ prd_output.shown
    /\ prdDefault = <<"r">>
    /\ prd_input = <<"p">>
    /\ last_prd.value = <<"é">>

\* C9: when the generation call of a PRD run raises, the run ends there: no
\* PRD is shown, no download is offered, and the slot keeps its value.
C9_PrdFailureAborts ==
    [][(pc = "prd_wait" /\ response'.kind = "raise") =>
            /\ pc' = "idle"
            /\ uncaught'
            /\ ~prd_output'.shown
            /\ ~prdDownload'.offered
            /\ ~planDownload'.offered
            /\ last_prd' = last_prd
            /\ prd_input' = prd_input]_vars

C9_Witness ==
    /\ clicked = "prd"
    /\ pc = "idle"
    /\ uncaught
    /\ response.kind = "raise"
    /\ last_prd = [present |-> TRUE, value |-> <<"r">>]

====
